---------------------------- MODULE Spec2Model ----------------------------
(***************************************************************************)
(* State-machine model of DICe's Triangulation class                       *)
(* (src/src/core/DICe_Triangulation.cpp): calibration loading, stereo      *)
(* triangulation, camera-1 sensor projection, projective-transform         *)
(* estimation and the direct left->right mapping.                          *)
(*                                                                         *)
(* scalar_t / double values are modelled as exact rationals <<n, d>> with  *)
(* d > 0 and gcd(n, d) = 1: rounding is not modelled, so an equality of    *)
(* the model is an equality "within floating-point tolerance" of the code. *)
(* Angles are restricted to multiples of 90 degrees, whose sine and cosine *)
(* are rational.  Inputs that would divide by zero (IEEE inf/NaN) are      *)
(* excluded by the guards of the actions.                                  *)
(***************************************************************************)
EXTENDS Integers, Sequences, FiniteSets, TLC

(***************************************************************************)
(* Exact rational arithmetic standing for scalar_t                         *)
(***************************************************************************)
RECURSIVE GCD(_, _)
GCD(a, b) == IF b = 0 THEN a ELSE GCD(b, a % b)

IAbs(n) == IF n < 0 THEN -n ELSE n

Norm(n, d) ==
  LET g == GCD(IAbs(n), IAbs(d))
      s == IF d < 0 THEN -1 ELSE 1
  IN  <<(s * n) \div g, (s * d) \div g>>

R(n) == <<n, 1>>

\* sums and products reduce by the common factors first, as the values stay small
RAdd(a, b) == IF a[1] = 0 THEN b ELSE IF b[1] = 0 THEN a
              ELSE IF a[2] = 1 /\ b[2] = 1 THEN <<a[1] + b[1], 1>>
              ELSE LET g == GCD(a[2], b[2])
                   IN  Norm(a[1] * (b[2] \div g) + b[1] * (a[2] \div g),
                            (a[2] \div g) * b[2])
RNeg(a)    == <<-a[1], a[2]>>
RSub(a, b) == RAdd(a, RNeg(b))
RMul(a, b) == IF a[1] = 0 \/ b[1] = 0 THEN <<0, 1>>
              ELSE IF a[2] = 1 /\ b[2] = 1 THEN <<a[1] * b[1], 1>>
              ELSE LET g == GCD(IAbs(a[1]), b[2])
                       h == GCD(IAbs(b[1]), a[2])
                   IN  <<(a[1] \div g) * (b[1] \div h), (a[2] \div h) * (b[2] \div g)>>
RInv(a)    == IF a[1] < 0 THEN <<-a[2], -a[1]>> ELSE <<a[2], a[1]>>
RDiv(a, b) == RMul(a, RInv(b))
RAbs(a)    == <<IAbs(a[1]), a[2]>>
RLt(a, b)  == IF a[2] = b[2] THEN a[1] < b[1] ELSE
              LET g == GCD(a[2], b[2])
              IN  a[1] * (b[2] \div g) < b[1] * (a[2] \div g)
RLeq(a, b) == ~RLt(b, a)
RIsZero(a) == a[1] = 0

(***************************************************************************)
(* Vectors and matrices: sequences, and sequences of rows, built eagerly   *)
(***************************************************************************)
RECURSIVE SeqOf(_, _)
SeqOf(f, n) == IF n = 0 THEN <<>> ELSE Append(SeqOf(f, n - 1), f[n])

MatOf(f, r, c) == SeqOf([i \in 1..r |-> SeqOf(f[i], c)], r)

RECURSIVE RSum(_, _)
RSum(f, n) == IF n = 0 THEN <<0, 1>> ELSE RAdd(RSum(f, n - 1), f[n])

ZeroVec(n) == SeqOf([i \in 1..n |-> R(0)], n)
ZeroMat(r, c) == MatOf([i \in 1..r |-> [j \in 1..c |-> R(0)]], r, c)
Identity(n) == MatOf([i \in 1..n |-> [j \in 1..n |-> IF i = j THEN R(1) ELSE R(0)]], n, n)

\* C(i,j) = sum_k A(i,k) * B(k,j), A is r x m, B is m x c
MatMul(A, B, r, m, c) ==
  MatOf([i \in 1..r |-> [j \in 1..c |->
           RSum([k \in 1..m |-> RMul(A[i][k], B[k][j])], m)]], r, c)

MatVec(A, v, r, c) ==
  SeqOf([i \in 1..r |-> RSum([k \in 1..c |-> RMul(A[i][k], v[k])], c)], r)

(***************************************************************************)
(* Teuchos::LAPACK GETRF / GETRI as the code calls them.  GETRF is the LU  *)
(* factorization with partial pivoting (first row of largest magnitude);   *)
(* INFO = j > 0 reports the first exactly-zero pivot U(j,j) and the        *)
(* factorization is still completed.  GETRI inverts from the factors; if   *)
(* a diagonal entry of U is zero it returns INFO > 0 and leaves the matrix *)
(* (the packed factors) untouched.  Neither wrapper throws.                *)
(***************************************************************************)
RECURSIVE PivotRow(_, _, _, _, _)
PivotRow(A, j, i, n, best) ==
  IF i > n THEN best
  ELSE PivotRow(A, j, i + 1, n,
                IF RLt(RAbs(A[best][j]), RAbs(A[i][j])) THEN i ELSE best)

SwapRows(A, p, q) == IF p = q THEN A ELSE [A EXCEPT ![p] = A[q], ![q] = A[p]]

\* one column of the right-looking elimination
EliminateColumn(A, j, n) ==
  MatOf([i \in 1..n |-> [k \in 1..n |->
           IF i <= j THEN A[i][k]
           ELSE IF k < j THEN A[i][k]
           ELSE IF k = j THEN RDiv(A[i][j], A[j][j])
           ELSE RSub(A[i][k], RMul(RDiv(A[i][j], A[j][j]), A[j][k]))]], n, n)

RECURSIVE GetrfFrom(_, _, _, _, _)
GetrfFrom(A, ipiv, info, j, n) ==
  IF j > n THEN [a |-> A, ipiv |-> ipiv, info |-> info]
  ELSE LET p == PivotRow(A, j, j, n, j)
       IN  IF RIsZero(A[p][j])
           THEN GetrfFrom(A, Append(ipiv, p), IF info = 0 THEN j ELSE info, j + 1, n)
           ELSE GetrfFrom(EliminateColumn(SwapRows(A, j, p), j, n),
                          Append(ipiv, p), info, j + 1, n)

GETRF(A, n) == GetrfFrom(A, <<>>, 0, 1, n)

RECURSIVE FirstZeroDiag(_, _, _)
FirstZeroDiag(A, i, n) ==
  IF i > n THEN 0 ELSE IF RIsZero(A[i][i]) THEN i ELSE FirstZeroDiag(A, i + 1, n)

RECURSIVE ApplyPivots(_, _, _, _)
ApplyPivots(b, ipiv, j, n) ==
  IF j > n THEN b
  ELSE ApplyPivots([b EXCEPT ![j] = b[ipiv[j]], ![ipiv[j]] = b[j]], ipiv, j + 1, n)

\* L y = b, L unit lower triangular, packed below the diagonal of LU
RECURSIVE ForwardSub(_, _, _, _)
ForwardSub(LU, b, y, n) ==
  IF Len(y) = n THEN y
  ELSE LET i == Len(y) + 1
       IN  ForwardSub(LU, b,
             Append(y, RSub(b[i], RSum([k \in 1..(i - 1) |-> RMul(LU[i][k], y[k])], i - 1))),
             n)

\* U x = y, U upper triangular with non-zero diagonal; x is filled from row n up
RECURSIVE BackSub(_, _, _, _, _)
BackSub(LU, y, x, i, n) ==
  IF i = 0 THEN x
  ELSE LET s == RSum([k \in 1..(n - i) |-> RMul(LU[i][i + k], x[i + k])], n - i)
       IN  BackSub(LU, y, [x EXCEPT ![i] = RDiv(RSub(y[i], s), LU[i][i])], i - 1, n)

UnitVec(c, n) == SeqOf([i \in 1..n |-> IF i = c THEN R(1) ELSE R(0)], n)

InverseColumn(LU, ipiv, c, n) ==
  BackSub(LU, ForwardSub(LU, ApplyPivots(UnitVec(c, n), ipiv, 1, n), <<>>, n),
          ZeroVec(n), n, n)

InverseFromLU(LU, ipiv, n) ==
  LET cols == SeqOf([c \in 1..n |-> InverseColumn(LU, ipiv, c, n)], n)
  IN  MatOf([i \in 1..n |-> [j \in 1..n |-> cols[j][i]]], n, n)

GETRI(LU, ipiv, n) ==
  LET z == FirstZeroDiag(LU, 1, n)
  IN  IF z # 0 THEN [a |-> LU, info |-> z]
      ELSE [a |-> InverseFromLU(LU, ipiv, n), info |-> 0]

(***************************************************************************)
(* State of one Triangulation object and the observable result of the last *)
(* call made on it                                                         *)
(***************************************************************************)
VARIABLES
  cal_intrinsics_,    \* 2 x 8: cx cy fx fy fs k1 k2 k3 per camera (<<>> before a load)
  cal_extrinsics_,    \* 4 x 4 camera 0 -> camera 1 transform
  trans_extrinsics_,  \* 4 x 4 camera 0 -> world transform
  projectives_,       \* the 8 projective coefficients
  estimated,          \* history: some estimate_projective_transform call has succeeded
  report,             \* projection_out.dat: the coefficient lists written to it
  images,             \* the diagnostic images written: the coefficients they were made with
  ret,                \* the last call: operation, inputs, thrown error or outputs
  loadlog,            \* what the most recent load_calibration_parameters did
  pc,                 \* position of each concurrent triangulate call
  arg,                \* arguments of each concurrent triangulate call
  out,                \* outputs written by each concurrent triangulate call
  statics             \* the function-local static scratch of triangulate

vars == <<cal_intrinsics_, cal_extrinsics_, trans_extrinsics_, projectives_,
          estimated, report, images, ret, loadlog, pc, arg, out, statics>>

estVars == <<projectives_, estimated, report, images>>

store == <<cal_intrinsics_, cal_extrinsics_, trans_extrinsics_>>

RSeq(s) == SeqOf([i \in 1..Len(s) |-> R(s[i])], Len(s))

(***************************************************************************)
(* convert_CB_angles_to_T: angles in degrees, multiples of 90              *)
(***************************************************************************)
CosDeg(a) == LET q == (a[1] \div a[2]) % 360
             IN  IF q = 0 THEN R(1) ELSE IF q = 180 THEN R(-1) ELSE R(0)
SinDeg(a) == LET q == (a[1] \div a[2]) % 360
             IN  IF q = 90 THEN R(1) ELSE IF q = 270 THEN R(-1) ELSE R(0)

convert_CB_angles_to_T(alpha, beta, gamma, tx, ty, tz) ==
  LET cx == CosDeg(alpha)  sx == SinDeg(alpha)
      cy == CosDeg(beta)   sy == SinDeg(beta)
      cz == CosDeg(gamma)  sz == SinDeg(gamma)
  IN  << << RMul(cy, cz),
            RSub(RMul(RMul(sx, sy), cz), RMul(cx, sz)),
            RAdd(RMul(RMul(cx, sy), cz), RMul(sx, sz)),
            tx >>,
         << RMul(cy, sz),
            RAdd(RMul(RMul(sx, sy), sz), RMul(cx, cz)),
            RSub(RMul(RMul(cx, sy), sz), RMul(sx, cz)),
            ty >>,
         << RNeg(sy), RMul(sx, cy), RMul(cx, cy), tz >>,
         << R(0), R(0), R(0), R(1) >> >>

PoseToT(p) == convert_CB_angles_to_T(p[1], p[2], p[3], p[4], p[5], p[6])

(***************************************************************************)
(* invert_transform: GETRF then GETRI on the 4 x 4 matrix, in place.  INFO *)
(* is never read, and the catch block is reached only by a C++ exception,  *)
(* which the LAPACK wrappers do not raise: threw is what the code can do.  *)
(***************************************************************************)
InvertThrows(info_getrf, info_getri) == FALSE

invert_transform(T) ==
  LET f == GETRF(T, 4)
      g == GETRI(f.a, f.ipiv, 4)
  IN  [T_out |-> g.a, INFO |-> g.info, threw |-> InvertThrows(f.info, g.info)]

(***************************************************************************)
(* Calibration files.  A path is a sequence of characters.  A file holds   *)
(* either Format A content (its CAMERA records, in file order; every other *)
(* line is skipped by the reader) or Format B content (its lines: a "#"    *)
(* comment, or one numeric value).                                         *)
(***************************************************************************)
num_values_expected == 22
num_values_with_custom_transform == 28

\* Largest number of values a Format B file of the model holds
MaxValues == 29

xml == <<"x", "m", "l">>
txt == <<"t", "x", "t">>

\* std::string::find(pat) != npos
Find(path, pat) ==
  \E i \in 1..(Len(path) - Len(pat) + 1) : SubSeq(path, i, i + Len(pat) - 1) = pat

IntrA   == <<2, 2, 1, 1, 0, 0, 0, 0>>
IntrB   == <<1, 1, 2, 1, 1, 1, 0, 0>>
IntrCx0 == <<0, 2, 1, 1, 0, 0, 0, 0>>
IntrCyN == <<1, -1, 2, 1, 1, 1, 0, 0>>
PoseZero  == <<0, 0, 0, 0, 0, 0>>
PoseShift == <<0, 0, 0, -1, 0, -1>>
PoseRot   == <<0, 90, 0, 1, 0, 2>>
PoseWorld == <<90, 0, 0, 0, 1, 0>>

Comment == [kind |-> "comment"]
Value(v) == [kind |-> "value", v |-> R(v)]

\* a Format B file of n values: the first n of the template, then padding
TxtLines(template, n) ==
  <<Comment>> \o
  SeqOf([i \in 1..n |-> Value(IF i <= Len(template) THEN template[i] ELSE 1)], n)

Camera(intr, pose) == [intr |-> RSeq(intr), pose |-> RSeq(pose)]

TxtFile(path, template, n) ==
  [path |-> path, readable |-> TRUE, cameras |-> <<>>, lines |-> TxtLines(template, n)]
XmlFile(path, cams) ==
  [path |-> path, readable |-> TRUE, cameras |-> cams, lines |-> <<>>]

TemplateGood   == IntrA \o IntrB \o PoseShift \o PoseWorld
TemplateRot    == IntrB \o IntrA \o PoseRot \o PoseWorld
TemplateSame   == IntrA \o IntrA \o PoseZero \o PoseZero
TemplateBadCx0 == IntrCx0 \o IntrB \o PoseShift \o PoseWorld
TemplateBadCy1 == IntrA \o IntrCyN \o PoseShift \o PoseWorld

PathTxt    == <<"c", ".", "t", "x", "t">>
PathXml    == <<"c", ".", "x", "m", "l">>
PathDat    == <<"c", ".", "d", "a", "t">>
PathXmlDir == <<"x", "m", "l", "/", "c", ".", "t", "x", "t">>
PathTxtBak == <<"c", ".", "t", "x", "t", ".", "b", "k">>

CalFiles ==
     { TxtFile(PathTxt, TemplateGood, n) :
         n \in {0, 7, 21, 22, 25, 28} \cup (29..MaxValues) }
  \cup { TxtFile(PathTxt, t, n) :
         t \in {TemplateRot, TemplateSame, TemplateBadCx0, TemplateBadCy1},
         n \in {num_values_expected, num_values_with_custom_transform} }
  \cup { TxtFile(PathDat, TemplateGood, num_values_expected),
         TxtFile(PathXmlDir, TemplateGood, num_values_expected),
         TxtFile(PathTxtBak, TemplateGood, num_values_expected),
         [TxtFile(PathTxt, TemplateGood, num_values_expected) EXCEPT !.readable = FALSE],
         XmlFile(PathXml, <<Camera(IntrA, PoseWorld), Camera(IntrB, PoseRot)>>),
         XmlFile(PathXml, <<Camera(IntrA, PoseZero), Camera(IntrCyN, PoseShift)>>),
         XmlFile(PathXml, <<Camera(IntrA, PoseWorld)>>),
         XmlFile(PathXml, <<>>) }

(***************************************************************************)
(* load_calibration_parameters                                             *)
(***************************************************************************)
\* lines 113-115
ClearedCalExtrinsics == ZeroMat(4, 4)
\* a load that leaves the previous camera 0 -> world transform in place
ClearedTransExtrinsics_Stale(old) == IF old = <<>> THEN Identity(4) ELSE old
\* lines 117-121: cleared, then set to the identity
ClearedTransExtrinsics(old) == Identity(4)
\* lines 125-127
ClearedCalIntrinsics == ZeroMat(2, 8)

\* lines 208-210: only the diagonal is written
SetDiagonalOne(T) == MatOf([i \in 1..4 |-> [j \in 1..4 |-> IF i = j THEN R(1) ELSE T[i][j]]], 4, 4)

\* lines 213-229: one pass of the Format B loop per line; oob collects the indices
\* at which trans_extrinsics (a vector of 6) is written past its end
RECURSIVE TxtLoop(_, _, _)
TxtLoop(lines, k, st) ==
  IF k > Len(lines) THEN st
  ELSE IF lines[k].kind = "comment" THEN TxtLoop(lines, k + 1, st)
  ELSE
    LET nv == st.num_values
        camera_index == IF nv >= 8 THEN 1 ELSE 0
        v == lines[k].v
    IN  TxtLoop(lines, k + 1,
          IF nv < 16
          THEN [st EXCEPT !.intr[camera_index + 1][nv - camera_index * 8 + 1] = v,
                          !.num_values = nv + 1]
          ELSE IF nv < 22
          THEN [st EXCEPT !.extrinsics[nv - 16 + 1] = v, !.num_values = nv + 1]
          ELSE IF nv - 22 < Len(st.trans_extrinsics)
          THEN [st EXCEPT !.trans_extrinsics[nv - 22 + 1] = v, !.num_values = nv + 1]
          ELSE [st EXCEPT !.oob = @ \cup {nv - 22}, !.num_values = nv + 1])

\* line 230
CountRejected(num_values) ==
  num_values # num_values_expected /\ num_values # num_values_with_custom_transform

\* a check that lets a principal point of exactly zero through
IntrinsicsRejected_Strict(intr) ==
  \/ RLt(intr[1][1], R(0)) \/ RLt(intr[1][2], R(0))
  \/ RLt(intr[2][1], R(0)) \/ RLt(intr[2][2], R(0))
\* lines 264-267
IntrinsicsRejected(intr) ==
  \/ RLeq(intr[1][1], R(0)) \/ RLeq(intr[1][2], R(0))
  \/ RLeq(intr[2][1], R(0)) \/ RLeq(intr[2][2], R(0))

\* lines 133, 203, 260: the branch taken for a path
ParserFor(path) ==
  IF Find(path, xml) THEN "A" ELSE IF Find(path, txt) THEN "B" ELSE "none"

NoInvert == [called |-> FALSE]
Inverted(T, r) == [called |-> TRUE, T_in |-> T, T_out |-> r.T_out, INFO |-> r.INFO,
                   threw |-> r.threw]

\* a product with its factors in the other order
ExtrinsicsProduct_Swapped(acc, T1, T0inv) ==
  MatOf([i \in 1..4 |-> [j \in 1..4 |->
     RAdd(acc[i][j], RSum([k \in 1..4 |-> RMul(T0inv[i][k], T1[k][j])], 4))]], 4, 4)
\* lines 194-201: cal_extrinsics_[i][j] += vec_of_Ts[1](i,k)*vec_of_Ts[0](k,j)
ExtrinsicsProduct(acc, T1, T0inv) ==
  MatOf([i \in 1..4 |-> [j \in 1..4 |->
     RAdd(acc[i][j], RSum([k \in 1..4 |-> RMul(T1[i][k], T0inv[k][j])], 4))]], 4, 4)

\* lines 140-201
\* vec_of_Ts start as zero matrices and cal_intrinsics_ as zeros; each CAMERA
\* record fills the next camera's slot
ParseXml(f) ==
  LET n == Len(f.cameras)
      intr == SeqOf([c \in 1..2 |-> IF c <= n THEN f.cameras[c].intr
                                             ELSE ClearedCalIntrinsics[c]], 2)
      vec_of_Ts == SeqOf([c \in 1..2 |-> IF c <= n THEN PoseToT(f.cameras[c].pose)
                                                  ELSE ZeroMat(4, 4)], 2)
      inv == invert_transform(vec_of_Ts[1])
      product == ExtrinsicsProduct(ClearedCalExtrinsics, vec_of_Ts[2], inv.T_out)
  IN  [parser |-> "A", n |-> n, intr |-> intr, ext |-> product,
       custom |-> TRUE, trans |-> inv.T_out,
       inv |-> Inverted(vec_of_Ts[1], inv), oob |-> {}, rejected |-> FALSE,
       T1 |-> vec_of_Ts[2]]

\* lines 204-258
ParseTxt(f) ==
  LET st == TxtLoop(f.lines, 1,
              [num_values |-> 0, intr |-> ClearedCalIntrinsics, extrinsics |-> ZeroVec(6),
               trans_extrinsics |-> ZeroVec(6), oob |-> {}])
      base == [parser |-> "B", n |-> st.num_values, intr |-> st.intr,
               ext |-> ClearedCalExtrinsics, custom |-> FALSE, trans |-> <<>>,
               inv |-> NoInvert, oob |-> st.oob, rejected |-> TRUE, T1 |-> <<>>]
      inv == invert_transform(PoseToT(st.trans_extrinsics))
  IN  IF CountRejected(st.num_values) THEN base
      ELSE IF st.num_values = num_values_with_custom_transform
      THEN [base EXCEPT !.ext = PoseToT(st.extrinsics), !.custom = TRUE,
                        !.trans = inv.T_out,
                        !.inv = Inverted(PoseToT(st.trans_extrinsics), inv),
                        !.rejected = FALSE]
      ELSE [base EXCEPT !.ext = PoseToT(st.extrinsics), !.rejected = FALSE]

NotParsed == [parser |-> "none", n |-> 0, intr |-> ClearedCalIntrinsics,
              ext |-> ClearedCalExtrinsics, custom |-> FALSE, trans |-> <<>>,
              inv |-> NoInvert, oob |-> {}, rejected |-> FALSE, T1 |-> <<>>]

\* what reading the file yields, before anything is decided from it
ParseFile(f) ==
  IF ~f.readable THEN NotParsed
  ELSE IF ParserFor(f.path) = "A" THEN ParseXml(f)
  ELSE IF ParserFor(f.path) = "B" THEN ParseTxt(f)
  ELSE NotParsed

\* every file of the model with what reading it yields
ParsedFiles == { <<f, ParseFile(f)>> : f \in CalFiles }

\* how the call ends; ub is what the build does with a write past the end of
\* trans_extrinsics: "benign" (the write lands in unused memory and the load goes
\* on) or "crash" (heap corruption ends the process)
LoadStatus(f, p, ub) ==
  IF ~f.readable THEN "ParseError"
  ELSE IF p.parser = "none" THEN "UnsupportedFormatError"
  ELSE IF p.oob # {} /\ ub = "crash" THEN "Crash"
  ELSE IF p.rejected THEN "ParseError"
  ELSE IF p.inv.called /\ p.inv.threw THEN "SingularMatrixError"
  ELSE IF IntrinsicsRejected(p.intr) THEN "InvalidIntrinsicsError"
  ELSE "ok"

\* the whole call: what it leaves in the store and how it ends
LoadOutcome(f, p, old, ub) ==
  LET cleared == ClearedTransExtrinsics(old.trans)
  IN  IF ~f.readable
      THEN [intr |-> old.intr, ext |-> old.ext, trans |-> old.trans,
            status |-> LoadStatus(f, p, ub)]
      ELSE [intr |-> p.intr, ext |-> p.ext,
            trans |-> IF p.custom THEN p.trans
                      ELSE IF p.parser = "B" THEN SetDiagonalOne(cleared)
                      ELSE cleared,
            status |-> LoadStatus(f, p, ub)]

(***************************************************************************)
(* correct_lens_distortion_radial, lines 439-456; camera_id is 0 or 1      *)
(***************************************************************************)
correct_lens_distortion_radial(intr, x_s, y_s, camera_id) ==
  LET c  == intr[camera_id + 1]
      r1 == RDiv(RSub(x_s, c[1]), c[1])
      r2 == RDiv(RSub(y_s, c[2]), c[2])
      rho_tilde == RAdd(RMul(r1, r1), RMul(r2, r2))
      factor == RAdd(RAdd(RMul(c[6], rho_tilde),
                          RMul(RMul(c[7], rho_tilde), rho_tilde)),
                     RMul(RMul(RMul(c[8], rho_tilde), rho_tilde), rho_tilde))
  IN  << RSub(x_s, RMul(RMul(factor, r1), c[1])),
         RSub(y_s, RMul(RMul(factor, r2), c[2])) >>

(***************************************************************************)
(* triangulate, lines 293-437, one operator per block of the function      *)
(***************************************************************************)
\* lines 359-360
TriCm(intr, xc1, yc1) == << RSub(intr[2][1], xc1), RSub(intr[2][2], yc1) >>

\* lines 354-372
TriM(intr, ext, xc0, yc0, cm) ==
  << << intr[1][3], intr[1][5], RSub(intr[1][1], xc0) >>,
     << R(0), intr[1][4], RSub(intr[1][2], yc0) >>,
     SeqOf([j \in 1..3 |->
        RAdd(RAdd(RMul(cm[1], ext[3][j]), RMul(intr[2][3], ext[1][j])),
             RMul(intr[2][5], ext[2][j]))], 3),
     SeqOf([j \in 1..3 |->
        RAdd(RMul(cm[2], ext[3][j]), RMul(intr[2][4], ext[2][j]))], 3) >>

\* a right-hand side whose tz terms have the wrong sign
TriR_SignSlip(intr, ext, cm) ==
  << R(0), R(0),
     RAdd(RSub(RNeg(RMul(intr[2][3], ext[1][4])), RMul(intr[2][5], ext[2][4])),
          RMul(cm[1], ext[3][4])),
     RAdd(RNeg(RMul(intr[2][4], ext[2][4])), RMul(cm[2], ext[3][4])) >>
\* lines 373-376
TriR(intr, ext, cm) ==
  << R(0), R(0),
     RSub(RSub(RNeg(RMul(intr[2][3], ext[1][4])), RMul(intr[2][5], ext[2][4])),
          RMul(cm[1], ext[3][4])),
     RSub(RNeg(RMul(intr[2][4], ext[2][4])), RMul(cm[2], ext[3][4])) >>

\* lines 386-393
TriMTM(M) ==
  MatOf([i \in 1..3 |-> [j \in 1..3 |->
           RSum([k \in 1..4 |-> RMul(M[k][i], M[k][j])], 4)]], 3, 3)

\* lines 394-404: INFO is never read; the catch block needs a C++ exception, which
\* the LAPACK wrappers do not raise
TriInvert(MTM) ==
  LET f == GETRF(MTM, 3)
      g == GETRI(f.a, f.ipiv, 3)
  IN  [MTM |-> g.a, IPIV |-> f.ipiv, INFO |-> g.info, threw |-> FALSE]

\* lines 405-413
TriMTMMT(MTMinv, M) ==
  MatOf([i \in 1..3 |-> [j \in 1..4 |->
           RSum([k \in 1..3 |-> RMul(MTMinv[i][k], M[j][k])], 3)]], 3, 4)

\* lines 415-421
TriXYZc0(MTMMT, r) ==
  Append(SeqOf([i \in 1..3 |-> RSum([j \in 1..4 |-> RMul(MTMMT[i][j], r[j])], 4)], 3),
         R(1))

\* lines 427-432
TriXYZ(trans, XYZc0) == MatVec(trans, XYZc0, 4, 4)

\* lines 309-317
TriSensor(intr, x0, y0, x1, y1, correct_lens_distortion) ==
  IF correct_lens_distortion
  THEN correct_lens_distortion_radial(intr, x0, y0, 0)
       \o correct_lens_distortion_radial(intr, x1, y1, 1)
  ELSE <<x0, y0, x1, y1>>

\* lines 422-424, 433-435: the values handed back to the caller
TriResult(trans, inv, XYZc0) ==
  [status |-> IF inv.threw THEN "SingularMatrixError" ELSE "ok",
   INFO |-> inv.INFO,
   c |-> SubSeq(XYZc0, 1, 3), w |-> SubSeq(TriXYZ(trans, XYZc0), 1, 3)]

\* lines 405-436, given the inverted M^T M
TriSolve(trans, M, r, inv) ==
  TriResult(trans, inv, TriXYZc0(TriMTMMT(inv.MTM, M), r))

\* lines 386-436, given M and r
TriSystem(trans, M, r) == TriSolve(trans, M, r, TriInvert(TriMTM(M)))

\* lines 353-436, given the sensor coordinates and cmx, cmy
TriFromCm(intr, ext, trans, s, cm) ==
  TriSystem(trans, TriM(intr, ext, s[1], s[2], cm), TriR(intr, ext, cm))

\* lines 353-436, given the (corrected) sensor coordinates
TriFromSensor(intr, ext, trans, s) ==
  TriFromCm(intr, ext, trans, s, TriCm(intr, s[3], s[4]))

\* one call run alone
Triangulate(intr, ext, trans, x0, y0, x1, y1, correct_lens_distortion) ==
  TriFromSensor(intr, ext, trans,
                TriSensor(intr, x0, y0, x1, y1, correct_lens_distortion))

(***************************************************************************)
(* project_camera_0_to_sensor_1, lines 458-511, for a camera given by its  *)
(* intrinsics and the transform into its frame                             *)
(***************************************************************************)
\* a projection whose third row carries fx instead of 1
ProjectSensor_ScaledDepth(ci, T, p) ==
  LET F2 == << << ci[3], ci[5], ci[1], R(0) >>,
               << R(0), ci[4], ci[2], R(0) >>,
               << R(0), R(0), ci[3], R(0) >> >>
      F2_T == MatMul(F2, T, 3, 4, 4)
      h == << p[1], p[2], p[3], R(1) >>
      psi2 == RSum([k \in 1..4 |-> RMul(T[3][k], h[k])], 4)
      row(j) == RSum([k \in 1..4 |-> RMul(F2_T[j][k], h[k])], 4)
  IN  [psi2 |-> psi2,
       xs2 |-> RDiv(row(1), psi2),
       ys2 |-> RDiv(row(2), psi2),
       z2  |-> RDiv(row(3), psi2)]
ProjectSensor(ci, T, p) ==
  LET F2 == << << ci[3], ci[5], ci[1], R(0) >>,
               << R(0), ci[4], ci[2], R(0) >>,
               << R(0), R(0), R(1), R(0) >> >>
      F2_T == MatMul(F2, T, 3, 4, 4)
      h == << p[1], p[2], p[3], R(1) >>
      psi2 == RSum([k \in 1..4 |-> RMul(T[3][k], h[k])], 4)
      row(j) == RSum([k \in 1..4 |-> RMul(F2_T[j][k], h[k])], 4)
  IN  [psi2 |-> psi2,
       xs2 |-> RDiv(row(1), psi2),
       ys2 |-> RDiv(row(2), psi2),
       z2  |-> RDiv(row(3), psi2)]

\* line 509
DepthAssertHolds(z2) ==
  RLt(RAbs(RSub(z2, R(1))), <<1, 10>>)

\* camera 0's own forward projection: its frame is the reference frame
ProjectSensor0(intr, p) == ProjectSensor(intr[1], Identity(4), p)

(***************************************************************************)
(* estimate_projective_transform, lines 514-663.  projection_points.dat is *)
(* a readable flag and its non-empty lines, each the sequence of its       *)
(* numeric tokens.  The images and the simplex optimizer are external: the *)
(* optimizer returns a status and leaves refined coefficients in           *)
(* projectives_.                                                           *)
(***************************************************************************)
\* lines 524-531: the first non-empty line that has not 4 tokens, 0 if none
RECURSIVE FirstBadLine(_, _)
FirstBadLine(lines, k) ==
  IF k > Len(lines) THEN 0
  ELSE IF Len(lines[k]) # 4 THEN k ELSE FirstBadLine(lines, k + 1)

\* lines 557-575
DltK(pts) ==
  MatOf([q \in 1..(2 * Len(pts)) |->
           LET c == pts[(q + 1) \div 2]
           IN  IF q % 2 = 1
               THEN << c[1], c[2], R(1), R(0), R(0), R(0),
                       RNeg(RMul(c[1], c[3])), RNeg(RMul(c[2], c[3])) >>
               ELSE << R(0), R(0), R(0), c[1], c[2], R(1),
                       RNeg(RMul(c[1], c[4])), RNeg(RMul(c[2], c[4])) >>],
        2 * Len(pts), 8)

DltF(pts) ==
  SeqOf([q \in 1..(2 * Len(pts)) |->
           IF q % 2 = 1 THEN pts[(q + 1) \div 2][3] ELSE pts[(q + 1) \div 2][4]],
        2 * Len(pts))

\* lines 576-606: K^T K inverted by GETRF/GETRI (INFO never read), times K^T F
DltSolve(pts) ==
  LET m == 2 * Len(pts)
      K == DltK(pts)
      F == DltF(pts)
      KTK == MatOf([k \in 1..8 |-> [j \in 1..8 |->
                      RSum([q \in 1..m |-> RMul(K[q][k], K[q][j])], m)]], 8, 8)
      f == GETRF(KTK, 8)
      g == GETRI(f.a, f.ipiv, 8)
      KTu == SeqOf([i \in 1..8 |-> RSum([q \in 1..m |-> RMul(K[q][i], F[q])], m)], 8)
  IN  [projectives |-> MatVec(g.a, KTu, 8, 8), INFO |-> g.info]

\* the process has neither crashed nor been aborted by a failed assert
Alive == ret.status \notin {"Crash", "AssertionFailure"}

\* lines 620-633: the optimizer's configuration
max_iterations == 200
Deltas == << <<1, 1000>>, <<1, 1000>>, R(1), <<1, 1000>>, <<1, 1000>>, R(1),
             <<1, 10000>>, <<1, 10000>> >>

\* what simplex.minimize may leave in the coefficients it is handed: the start
\* point, or the start point moved by the step sizes
SimplexResults(start) ==
  { start, SeqOf([i \in 1..8 |-> RAdd(start[i], Deltas[i])], 8) }

\* Largest number of lines of a correspondence file of the model
MaxPoints == 5

\* correspondences of a grid of left points shifted one pixel right
ShiftPoint(k) ==
  LET xl == (k - 1) % 2
      yl == (k - 1) \div 2
  IN  RSeq(<<xl, yl, xl + 1, yl>>)
\* correspondences of collinear left points
LinePoint(k) == RSeq(<<k - 1, 0, k, 0>>)

CorrFile(lines) == [readable |-> TRUE, lines |-> lines]

CorrFiles ==
     { CorrFile(SeqOf([k \in 1..n |-> ShiftPoint(k)], n)) : n \in 0..MaxPoints }
  \cup { CorrFile(SeqOf([k \in 1..4 |-> LinePoint(k)], 4)),
         CorrFile(<<ShiftPoint(1), SubSeq(ShiftPoint(2), 1, 3), ShiftPoint(3),
                    ShiftPoint(4)>>),
         [readable |-> FALSE, lines |-> <<>>] }

\* a point count check that lets three points through
EstimateRejects_ThreePoints(cf) ==
  IF ~cf.readable THEN "ParseError"
  ELSE IF FirstBadLine(cf.lines, 1) # 0 THEN "ParseError"
  ELSE IF Len(cf.lines) < 3 THEN "InsufficientDataError"
  ELSE "none"
\* lines 519-534: the checks made on the file before anything is computed
EstimateRejects(cf) ==
  IF ~cf.readable THEN "ParseError"
  ELSE IF FirstBadLine(cf.lines, 1) # 0 THEN "ParseError"
  ELSE IF Len(cf.lines) < 4 THEN "InsufficientDataError"
  ELSE "none"

\* every correspondence file of the model with its closed-form solution
SolvedFiles ==
  { <<cf, IF EstimateRejects(cf) = "none" THEN DltSolve(cf.lines).projectives ELSE <<>> >> :
      cf \in CorrFiles }

estimate_projective_transform(cf, dlt, output_projected_image, corr_status, refined) ==
  /\ Alive
  /\ IF EstimateRejects(cf) # "none"
     THEN /\ ret' = [op |-> "estimate", status |-> EstimateRejects(cf), file |-> cf]
          /\ UNCHANGED estVars
     ELSE /\ refined \in SimplexResults(dlt)
          /\ projectives_' = refined
          /\ IF corr_status = "CORRELATION_SUCCESSFUL"
             THEN /\ ret' = [op |-> "estimate", status |-> "ok", file |-> cf]
                  /\ estimated' = TRUE
                  /\ report' = <<dlt, refined>>
                  /\ images' = IF output_projected_image THEN <<refined>> ELSE images
             ELSE /\ ret' = [op |-> "estimate", status |-> "OptimizationError",
                             file |-> cf]
                  /\ report' = <<dlt>>
                  /\ UNCHANGED <<estimated, images>>
  /\ UNCHANGED <<store, loadlog, pc, arg, out, statics>>

\* lines 665-679
ProjectDenominator(xl, yl) ==
  RAdd(RAdd(RMul(projectives_[7], xl), RMul(projectives_[8], yl)), R(1))

project_left_to_right_sensor_coords(xl, yl) ==
  /\ Alive
  /\ IF Len(projectives_) # 8
     THEN ret' = [op |-> "project_left_to_right", status |-> "AssertionFailure"]
     ELSE /\ ~RIsZero(ProjectDenominator(xl, yl))
          /\ ret' = [op |-> "project_left_to_right", status |-> "ok",
                     xl |-> xl, yl |-> yl,
                     xr |-> RDiv(RAdd(RAdd(RMul(projectives_[1], xl),
                                           RMul(projectives_[2], yl)), projectives_[3]),
                                 ProjectDenominator(xl, yl)),
                     yr |-> RDiv(RAdd(RAdd(RMul(projectives_[4], xl),
                                           RMul(projectives_[5], yl)), projectives_[6]),
                                 ProjectDenominator(xl, yl))]
  /\ UNCHANGED <<store, estVars, loadlog, pc, arg, out, statics>>


load_calibration_parameters(f, p, ub) ==
  LET o == LoadOutcome(f, p, [intr |-> cal_intrinsics_, ext |-> cal_extrinsics_,
                              trans |-> trans_extrinsics_], ub)
  IN  /\ Alive
      /\ cal_intrinsics_' = o.intr
      /\ cal_extrinsics_' = o.ext
      /\ trans_extrinsics_' = o.trans
      /\ ret' = [op |-> "load", status |-> o.status]
      /\ loadlog' = [path |-> f.path, readable |-> f.readable, parser |-> p.parser,
                     n |-> p.n, inv |-> p.inv, oob |-> p.oob, status |-> o.status,
                     trans_was_custom |-> trans_extrinsics_ \notin {<<>>, Identity(4)},
                     T1 |-> p.T1]
      /\ UNCHANGED <<estVars, pc, arg, out, statics>>

NoLoad == [path |-> <<>>, readable |-> FALSE, parser |-> "none", n |-> 0, inv |-> NoInvert,
           oob |-> {}, status |-> "none", trans_was_custom |-> FALSE, T1 |-> <<>>]

\* A new object: nothing loaded.  estimate_projective_transform writes
\* projectives_[0..7] without allocating it (lines 599-606), so the vector of 8
\* exists from construction.
Init ==
  /\ cal_intrinsics_ = <<>>
  /\ cal_extrinsics_ = <<>>
  /\ trans_extrinsics_ = <<>>
  /\ projectives_ = ZeroVec(8)
  /\ estimated = FALSE
  /\ report = <<>>
  /\ images = <<>>
  /\ ret = [op |-> "new", status |-> "ok"]
  /\ loadlog = NoLoad
  /\ pc = <<>>
  /\ arg = <<>>
  /\ out = <<>>
  /\ statics = <<>>

\* Largest coordinate of the 3D points and raw sensor coordinates tried
MaxCoord == 2

Points ==
  { <<R(x), R(y), R(z)>> : x \in 1..MaxCoord, y \in 0..1, z \in 1..MaxCoord }

\* the calls below are made on an object whose last load succeeded
Loaded == loadlog.status = "ok"

\* the sensor coordinates of a point in both cameras, as a caller of triangulate
\* obtains them by forward projection
Images(p) ==
  LET s0 == ProjectSensor0(cal_intrinsics_, p)
      s1 == ProjectSensor(cal_intrinsics_[2], cal_extrinsics_, p)
  IN  << s0.xs2, s0.ys2, s1.xs2, s1.ys2 >>

DepthsNonZero(p) ==
  /\ ~RIsZero(p[3])
  /\ ~RIsZero(ProjectSensor(cal_intrinsics_[2], cal_extrinsics_, p).psi2)

\* raw sensor coordinates (whole pixels)
RawSensor ==
  { <<R(x), R(MaxCoord), R(MaxCoord + 1), R(y)>> : x \in 1..MaxCoord, y \in 0..1 }

\* what triangulate is called with: the images of the points, and raw coordinates
SensorInputs ==
  IF ~Loaded THEN {}
  ELSE { Images(p) : p \in { q \in Points : DepthsNonZero(q) } } \cup RawSensor

PrincipalPointsNonZero ==
  \A c \in 1..2 : ~RIsZero(cal_intrinsics_[c][1]) /\ ~RIsZero(cal_intrinsics_[c][2])

triangulate(s, correct_lens_distortion) ==
  /\ Alive
  /\ Loaded
  /\ correct_lens_distortion => PrincipalPointsNonZero
  /\ LET t == Triangulate(cal_intrinsics_, cal_extrinsics_, trans_extrinsics_,
                          s[1], s[2], s[3], s[4], correct_lens_distortion)
     IN  ret' = [op |-> "triangulate", status |-> t.status, in |-> s,
                 correct |-> correct_lens_distortion, INFO |-> t.INFO,
                 c |-> t.c, w |-> t.w]
  /\ UNCHANGED <<store, estVars, loadlog, pc, arg, out, statics>>

project_camera_0_to_sensor_1(p) ==
  /\ Alive
  /\ Loaded
  /\ LET q == ProjectSensor(cal_intrinsics_[2], cal_extrinsics_, p)
     IN  /\ ~RIsZero(q.psi2)
         /\ ret' = [op |-> "project", in |-> p,
                    status |-> IF DepthAssertHolds(q.z2) THEN "ok" ELSE "AssertionFailure",
                    xs2 |-> q.xs2, ys2 |-> q.ys2, z2 |-> q.z2]
  /\ UNCHANGED <<store, estVars, loadlog, pc, arg, out, statics>>

\* the outcomes of the undefined behaviour of an out-of-bounds store, where one occurs
UBChoices(p) == IF p.oob # {} THEN {"benign", "crash"} ELSE {"benign"}

Next ==
  \/ \E e \in ParsedFiles : \E ub \in UBChoices(e[2]) :
        load_calibration_parameters(e[1], e[2], ub)
  \/ \E s \in SensorInputs : triangulate(s, FALSE)
  \/ \E s \in RawSensor : triangulate(s, TRUE)
  \/ \E p \in Points : project_camera_0_to_sensor_1(p)

Spec == Init /\ [][Next]_vars

(***************************************************************************)
(* The projective-transform path, from the same initial state              *)
(***************************************************************************)
SensorCoords == { R(x) : x \in 0..MaxCoord }

NextEst ==
  \/ \E e \in SolvedFiles, output_projected_image \in BOOLEAN,
         corr_status \in {"CORRELATION_SUCCESSFUL", "CORRELATION_FAILED"} :
       \E refined \in (IF e[2] = <<>> THEN {<<>>} ELSE SimplexResults(e[2])) :
         estimate_projective_transform(e[1], e[2], output_projected_image,
                                       corr_status, refined)
  \/ \E xl \in SensorCoords, yl \in SensorCoords :
       project_left_to_right_sensor_coords(xl, yl)

SpecEst == Init /\ [][NextEst]_vars

(***************************************************************************)
(* Two triangulate calls running at once on one loaded object.  Every      *)
(* scratch value of triangulate and of correct_lens_distortion_radial is a *)
(* function-local static, so both calls work in the same storage; a call   *)
(* advances one block of the function at a time.                           *)
(***************************************************************************)
Calls == {1, 2}

StaticsInit ==
  [xc0 |-> R(0), yc0 |-> R(0), xc1 |-> R(0), yc1 |-> R(0),
   M |-> ZeroMat(4, 3), MTM |-> ZeroMat(3, 3), MTMMT |-> ZeroMat(3, 4),
   r |-> ZeroVec(4), XYZc0 |-> ZeroVec(4), XYZ |-> ZeroVec(4),
   cm |-> <<R(0), R(0)>>, INFO |-> 0]

MatAdd(A, B, r, c) == MatOf([i \in 1..r |-> [j \in 1..c |-> RAdd(A[i][j], B[i][j])]], r, c)
VecAdd(a, b, n) == SeqOf([i \in 1..n |-> RAdd(a[i], b[i])], n)

ConcCalibration == ParseFile(TxtFile(PathTxt, TemplateGood, num_values_with_custom_transform))

\* the arguments the two calls are made with
ConcArgs ==
  { [s |-> <<R(1), R(MaxCoord), R(MaxCoord + 1), R(1)>>, correct |-> FALSE],
    [s |-> <<R(MaxCoord), R(1), R(1), R(0)>>, correct |-> TRUE] }

InitConc ==
  /\ cal_intrinsics_ = ConcCalibration.intr
  /\ cal_extrinsics_ = ConcCalibration.ext
  /\ trans_extrinsics_ = ConcCalibration.trans
  /\ projectives_ = ZeroVec(8)
  /\ estimated = FALSE
  /\ report = <<>>
  /\ images = <<>>
  /\ ret = [op |-> "load", status |-> "ok"]
  /\ loadlog = [NoLoad EXCEPT !.status = "ok"]
  /\ pc = [t \in Calls |-> "idle"]
  /\ arg \in [Calls -> ConcArgs]
  /\ out = [t \in Calls |-> [c |-> <<>>, w |-> <<>>]]
  /\ statics = StaticsInit

ConcFrame == UNCHANGED <<store, estVars, ret, loadlog, arg>>

Goto(t, from, to) == pc[t] = from /\ pc' = [pc EXCEPT ![t] = to]

\* lines 309-312
TriCopy(t) ==
  /\ Goto(t, "idle", IF arg[t].correct THEN "distort0" ELSE "clear")
  /\ statics' = [statics EXCEPT !.xc0 = arg[t].s[1], !.yc0 = arg[t].s[2],
                                !.xc1 = arg[t].s[3], !.yc1 = arg[t].s[4]]
  /\ UNCHANGED out /\ ConcFrame

\* line 314
TriDistort0(t) ==
  /\ Goto(t, "distort0", "distort1")
  /\ LET c == correct_lens_distortion_radial(cal_intrinsics_, statics.xc0, statics.yc0, 0)
     IN  statics' = [statics EXCEPT !.xc0 = c[1], !.yc0 = c[2]]
  /\ UNCHANGED out /\ ConcFrame

\* line 315
TriDistort1(t) ==
  /\ Goto(t, "distort1", "clear")
  /\ LET c == correct_lens_distortion_radial(cal_intrinsics_, statics.xc1, statics.yc1, 1)
     IN  statics' = [statics EXCEPT !.xc1 = c[1], !.yc1 = c[2]]
  /\ UNCHANGED out /\ ConcFrame

\* lines 335-351
TriClear(t) ==
  /\ Goto(t, "clear", "build")
  /\ statics' = [statics EXCEPT !.M = ZeroMat(4, 3), !.MTM = ZeroMat(3, 3),
                                !.MTMMT = ZeroMat(3, 4), !.r = ZeroVec(4),
                                !.XYZc0 = ZeroVec(4), !.XYZ = ZeroVec(4)]
  /\ UNCHANGED out /\ ConcFrame

\* lines 353-376: M(1,0), r[0] and r[1] are not assigned
TriBuild(t) ==
  /\ Goto(t, "build", "mtm")
  /\ LET cm == TriCm(cal_intrinsics_, statics.xc1, statics.yc1)
         M == TriM(cal_intrinsics_, cal_extrinsics_, statics.xc0, statics.yc0, cm)
         r == TriR(cal_intrinsics_, cal_extrinsics_, cm)
     IN  statics' = [statics EXCEPT !.cm = cm,
                       !.M = [M EXCEPT ![2][1] = statics.M[2][1]],
                       !.r = [r EXCEPT ![1] = statics.r[1], ![2] = statics.r[2]]]
  /\ UNCHANGED out /\ ConcFrame

\* lines 386-393: accumulated onto what MTM holds
TriAccumulateMTM(t) ==
  /\ Goto(t, "mtm", "invert")
  /\ statics' = [statics EXCEPT !.MTM = MatAdd(statics.MTM, TriMTM(statics.M), 3, 3)]
  /\ UNCHANGED out /\ ConcFrame

\* lines 394-404
TriInvertStep(t) ==
  /\ Goto(t, "invert", "mtmmt")
  /\ LET inv == TriInvert(statics.MTM)
     IN  statics' = [statics EXCEPT !.MTM = inv.MTM, !.INFO = inv.INFO]
  /\ UNCHANGED out /\ ConcFrame

\* lines 405-413: accumulated onto what MTMMT holds
TriAccumulateMTMMT(t) ==
  /\ Goto(t, "mtmmt", "xyzc0")
  /\ statics' = [statics EXCEPT
                   !.MTMMT = MatAdd(statics.MTMMT, TriMTMMT(statics.MTM, statics.M), 3, 4)]
  /\ UNCHANGED out /\ ConcFrame

\* lines 415-425: accumulated onto what XYZc0 holds, then written to the caller
TriPointCamera0(t) ==
  /\ Goto(t, "xyzc0", "xyz")
  /\ LET X == [VecAdd(statics.XYZc0, TriXYZc0(statics.MTMMT, statics.r), 4)
                 EXCEPT ![4] = R(1)]
     IN  /\ statics' = [statics EXCEPT !.XYZc0 = X]
         /\ out' = [out EXCEPT ![t].c = SubSeq(X, 1, 3)]
  /\ ConcFrame

\* lines 427-436: accumulated onto what XYZ holds, then written to the caller
TriPointWorld(t) ==
  /\ Goto(t, "xyz", "done")
  /\ LET X == VecAdd(statics.XYZ, TriXYZ(trans_extrinsics_, statics.XYZc0), 4)
     IN  /\ statics' = [statics EXCEPT !.XYZ = X]
         /\ out' = [out EXCEPT ![t].w = SubSeq(X, 1, 3)]
  /\ ConcFrame

NextConc ==
  \E t \in Calls :
    \/ TriCopy(t)
    \/ TriDistort0(t)
    \/ TriDistort1(t)
    \/ TriClear(t)
    \/ TriBuild(t)
    \/ TriAccumulateMTM(t)
    \/ TriInvertStep(t)
    \/ TriAccumulateMTMMT(t)
    \/ TriPointCamera0(t)
    \/ TriPointWorld(t)

SpecConc == InitConc /\ [][NextConc]_vars

(***************************************************************************)
(* correct_lens_distortion_radial called on its own, lines 439-456          *)
(***************************************************************************)
\* a double that is an infinity or a NaN: no rational, written with denominator 0
NotFinite == <<0, 0>>

\* lines 448-455 in IEEE arithmetic: with cx or cy zero, r1 or r2 is a division by
\* zero, rho_tilde and factor are not finite, and so are both results
CorrectedCoords(intr, x_s, y_s, camera_id) ==
  IF RIsZero(intr[camera_id + 1][1]) \/ RIsZero(intr[camera_id + 1][2])
  THEN << NotFinite, NotFinite >>
  ELSE correct_lens_distortion_radial(intr, x_s, y_s, camera_id)

\* line 443 guards only against an empty cal_intrinsics_; without the assert the
\* read of cal_intrinsics_[camera_id] is out of bounds
correct_lens_distortion_radial_call(x_s, y_s, camera_id, ub) ==
  /\ Alive
  /\ IF cal_intrinsics_ = <<>>
     THEN ret' = [op |-> "correct", status |-> ub]
     ELSE ret' = [op |-> "correct", status |-> "ok", in |-> <<x_s, y_s>>,
                  camera_id |-> camera_id,
                  res |-> CorrectedCoords(cal_intrinsics_, x_s, y_s, camera_id)]
  /\ UNCHANGED <<store, estVars, loadlog, pc, arg, out, statics>>

RadialCoords == { R(x) : x \in 0..MaxCoord }

NextRadial ==
  \/ \E e \in ParsedFiles : \E ub \in UBChoices(e[2]) :
        load_calibration_parameters(e[1], e[2], ub)
  \/ \E x_s \in RadialCoords, y_s \in RadialCoords, camera_id \in 0..1 :
        \E ub \in {"AssertionFailure", "Crash"} :
           correct_lens_distortion_radial_call(x_s, y_s, camera_id, ub)

SpecRadial == Init /\ [][NextRadial]_vars

(***************************************************************************)
(* Properties                                                              *)
(***************************************************************************)
\* what a path's extension is: the characters after its last dot (none without a dot)
RECURSIVE Extension(_)
Extension(path) ==
  IF path = <<>> THEN <<>>
  ELSE IF path[Len(path)] = "." THEN <<>>
  ELSE IF \A i \in 1..Len(path) : path[i] # "." THEN <<>>
  ELSE Append(Extension(SubSeq(path, 1, Len(path) - 1)), path[Len(path)])

\* the last call was triangulate, without distortion correction, on the two images
\* of the point p, whose depth is non-zero in both cameras
RoundTripOf(p) ==
  /\ ret.op = "triangulate"
  /\ ~ret.correct
  /\ DepthsNonZero(p)
  /\ ret.in = Images(p)

\* C1 (as stated): for every calibration and every point with non-zero depth in both
\* cameras, triangulating the point's two forward projections returns the point.
C1_RoundTripAlways ==
  \A p \in Points : RoundTripOf(p) => ret.c = p

\* C1 (amended): for every calibration and every point with non-zero depth in both
\* cameras for which M^T M is invertible (GETRF/GETRI report INFO = 0),
\* triangulating the point's two forward projections returns the point.
C1_RoundTripInvertible ==
  \A p \in Points : (RoundTripOf(p) /\ ret.INFO = 0) => ret.c = p

\* a round trip through a calibration with skew and a real baseline, off the axis
C1_Witness ==
  \E p \in Points :
    /\ RoundTripOf(p) /\ ret.INFO = 0 /\ ret.c = p
    /\ ~RIsZero(cal_intrinsics_[2][5])
    /\ ~RIsZero(cal_extrinsics_[3][4])
    /\ ~RIsZero(p[2])

\* C2: a load that raises an error on an object holding a successfully loaded
\* calibration leaves the stored intrinsics and both transforms as they were.
C2_ReloadAtomic ==
  [][ ( /\ loadlog.status = "ok"
        /\ ret'.op = "load"
        /\ ret'.status \in {"ParseError", "UnsupportedFormatError",
                            "InvalidIntrinsicsError", "SingularMatrixError"} )
      => store' = store ]_vars

\* C3: a triangulate call that ran concurrently with another returns exactly what
\* the same call returns when run alone.
C3_CallsIsolated ==
  \A t \in Calls :
    pc[t] = "done" =>
      LET alone == Triangulate(cal_intrinsics_, cal_extrinsics_, trans_extrinsics_,
                               arg[t].s[1], arg[t].s[2], arg[t].s[3], arg[t].s[4],
                               arg[t].correct)
      IN  out[t].c = alone.c /\ out[t].w = alone.w

\* C4: a Format B load fails with ParseError when the number of values is neither
\* 22 nor 28, and does not fail with ParseError when it is 22 or 28.
C4_CountDecides ==
  (ret.op = "load" /\ loadlog.parser = "B") =>
    ((loadlog.n \notin {22, 28}) <=> (ret.status = "ParseError"))

\* C5: for either format, a load that passes the format and count checks with a cx
\* or cy of either camera <= 0 fails with InvalidIntrinsicsError, and while the object
\* holds a successfully loaded calibration all four of cx0, cy0, cx1, cy1 are > 0.
C5_PrincipalPointPositive ==
  /\ loadlog.status = "ok" =>
       \A c \in 1..2, k \in 1..2 :
         cal_intrinsics_[c][k][1] > 0 /\ cal_intrinsics_[c][k][2] > 0
  /\ ( /\ ret.op = "load"
       /\ loadlog.readable
       /\ loadlog.parser \in {"A", "B"}
       /\ loadlog.parser = "B" => loadlog.n \in {22, 28}
       /\ \E c \in 1..2, k \in 1..2 : cal_intrinsics_[c][k][1] <= 0 )
     => ret.status = "InvalidIntrinsicsError"

\* a Format B load of 22 values rejected for cx = 0 of camera 0
C5_Witness ==
  /\ ret.op = "load"
  /\ ret.status = "InvalidIntrinsicsError"
  /\ loadlog.parser = "B"
  /\ loadlog.n = 22
  /\ cal_intrinsics_[1][1] = R(0)

\* C6: the parser is chosen by the extension alone: Format A exactly for xml,
\* Format B exactly for txt, and any other extension fails with
\* UnsupportedFormatError.
C6_ParserByExtension ==
  (ret.op = "load" /\ loadlog.readable) =>
    /\ loadlog.parser = "A" <=> Extension(loadlog.path) = xml
    /\ loadlog.parser = "B" <=> Extension(loadlog.path) = txt
    /\ Extension(loadlog.path) \notin {xml, txt} => ret.status = "UnsupportedFormatError"

\* C7: while the object holds a successfully loaded Format B file of 22 values, the
\* camera 0 -> world transform is the identity and triangulate returns world XYZ
\* equal to camera-0 XYZ.
C7_DefaultWorldIsIdentity ==
  (loadlog.status = "ok" /\ loadlog.parser = "B" /\ loadlog.n = 22) =>
    /\ trans_extrinsics_ = Identity(4)
    /\ ret.op = "triangulate" => ret.w = ret.c

\* a triangulation after a 22-value load that replaced a custom world transform
C7_Witness ==
  /\ loadlog.status = "ok" /\ loadlog.parser = "B" /\ loadlog.n = 22
  /\ loadlog.trans_was_custom
  /\ ret.op = "triangulate"
  /\ ret.INFO = 0
  /\ ret.w = ret.c

\* C8: invert_transform raises SingularMatrixError whenever the factorization or the
\* inversion reports a non-invertible matrix, and otherwise returns the inverse.
C8_InvertRaisesOnSingular ==
  (ret.op = "load" /\ loadlog.inv.called) =>
    /\ loadlog.inv.INFO # 0 => loadlog.inv.threw
    /\ ~loadlog.inv.threw =>
         MatMul(loadlog.inv.T_in, loadlog.inv.T_out, 4, 4, 4) = Identity(4)

\* C9: triangulate raises SingularMatrixError, and returns no XYZ, whenever M^T M is
\* not invertible.
C9_TriangulateRaisesOnSingular ==
  (ret.op = "triangulate" /\ ret.INFO # 0) => ret.status = "SingularMatrixError"

\* C10: a project_left_to_right_sensor_coords call not preceded by a successful
\* estimate fails with NotInitializedError.
C10_ProjectNeedsEstimate ==
  (ret.op = "project_left_to_right" /\ ~estimated) => ret.status = "NotInitializedError"

\* C11: an estimate whose correspondence file has fewer than 4 points (0 to 3
\* non-empty lines of 4 fields each) fails with InsufficientDataError and leaves the
\* coefficients, the estimated flag, the report and the images as they were; with 4 or
\* more points the estimate does not fail with InsufficientDataError.
C11_FewPointsRejectedFirst ==
  [][ ret'.op = "estimate" =>
        /\ ( /\ ret'.file.readable
             /\ \A k \in 1..Len(ret'.file.lines) : Len(ret'.file.lines[k]) = 4
             /\ Len(ret'.file.lines) < 4 )
           => (ret'.status = "InsufficientDataError" /\ UNCHANGED estVars)
        /\ Len(ret'.file.lines) >= 4 => ret'.status # "InsufficientDataError" ]_vars

\* an estimate with three points rejected on an object that holds an estimated
\* transform
C11_Witness ==
  /\ ret.op = "estimate"
  /\ ret.status = "InsufficientDataError"
  /\ Len(ret.file.lines) = 3
  /\ estimated
  /\ projectives_ # ZeroVec(8)
  /\ report # <<>>

\* C12: correct_lens_distortion_radial with k1 = k2 = k3 = 0 for the given camera
\* returns the input sensor coordinate unchanged, for every input and both camera ids.
C12_ZeroCoefficientsIdentity ==
  ( /\ ret.op = "correct"
    /\ ret.status = "ok"
    /\ \A k \in 6..8 : RIsZero(cal_intrinsics_[ret.camera_id + 1][k]) )
  => ret.res = ret.in

\* C13: while the object holds a successfully loaded Format A file with camera pose
\* matrices T0 and T1, the stored camera 0 -> world transform is the inverse of T0
\* and the stored camera 0 -> camera 1 transform is T1 * inverse(T0) (the matrix X
\* with X * T0 = T1).
C13_XmlTransforms ==
  (loadlog.status = "ok" /\ loadlog.parser = "A") =>
    /\ MatMul(trans_extrinsics_, loadlog.inv.T_in, 4, 4, 4) = Identity(4)
    /\ MatMul(loadlog.inv.T_in, trans_extrinsics_, 4, 4, 4) = Identity(4)
    /\ MatMul(cal_extrinsics_, loadlog.inv.T_in, 4, 4, 4) = loadlog.T1

\* a successful Format A load whose two factors do not commute and whose T0 is not
\* its own inverse
C13_Witness ==
  /\ ret.op = "load"
  /\ loadlog.status = "ok" /\ loadlog.parser = "A"
  /\ trans_extrinsics_ # loadlog.inv.T_in
  /\ cal_extrinsics_ = MatMul(loadlog.T1, trans_extrinsics_, 4, 4, 4)
  /\ cal_extrinsics_ # MatMul(trans_extrinsics_, loadlog.T1, 4, 4, 4)

\* C14: an estimate that fails with OptimizationError leaves the 8 coefficients of
\* the projective transform as they were before the call.
C14_FailedEstimateKeepsCoefficients ==
  [][ (ret'.op = "estimate" /\ ret'.status = "OptimizationError")
      => projectives_' = projectives_ ]_vars

\* C15: the depth assertion of project_camera_0_to_sensor_1 never fails: for every
\* stored calibration and every point whose depth term psi2 is non-zero, the
\* recovered homogeneous depth z2 equals 1, so |z2 - 1| < 0.1, and every call made
\* passes the assertion.
C15_DepthIsOne ==
  /\ cal_intrinsics_ # <<>> =>
       \A p \in Points :
         LET psi2 == RSum([k \in 1..4 |->
                       RMul(cal_extrinsics_[3][k], (p \o <<R(1)>>)[k])], 4)
         IN  ~RIsZero(psi2) =>
               /\ ProjectSensor(cal_intrinsics_[2], cal_extrinsics_, p).z2 = R(1)
               /\ DepthAssertHolds(ProjectSensor(cal_intrinsics_[2], cal_extrinsics_, p).z2)
  /\ ret.op = "project" => (ret.status = "ok" /\ ret.z2 = R(1))

\* a projection through a rotated and translated camera 1 with skew, off the axis
C15_Witness ==
  /\ ret.op = "project"
  /\ ret.status = "ok"
  /\ ret.z2 = R(1)
  /\ RIsZero(cal_extrinsics_[3][3])
  /\ ~RIsZero(cal_extrinsics_[3][4])
  /\ ~RIsZero(cal_intrinsics_[2][5])
  /\ ~RIsZero(ret.in[2])

\* C16: while a Format B file of any length is parsed, every value is stored at an
\* index inside its destination buffer: no store happens past the end of the
\* world-transform pose buffer (index 6 or above) before the count check.
C16_StoresInBounds ==
  (ret.op = "load" /\ loadlog.readable /\ loadlog.parser = "B") => loadlog.oob = {}
=============================================================================
